---- MODULE Spec2Model ----
(***************************************************************************)
(* pfx: layer program/version directories into a personal prefix with an  *)
(* overlay mount.  Model of src/pfx/main.py.                               *)
(*                                                                         *)
(* A string is a sequence of one-character strings, so that splitting on   *)
(* "|", the test for a leading "." and the lexicographic order of          *)
(* directory names are computed as the code computes them.  A path under   *)
(* the pfx home directory is represented by its last component.            *)
(***************************************************************************)
EXTENDS Naturals, Sequences, FiniteSets

\* ------------------------------------------------------------------ bounds
\* Number of directories the home holds before the first command.
MaxDirs == 3
\* Number of command-line invocations in one behaviour.
MaxCmds == 3

\* ----------------------------------------------------------------- strings
\* Code points of the characters that occur in the model's strings.
Ord(c) ==
  CASE c = "." -> 46
    [] c = "1" -> 49
    [] c = "2" -> 50
    [] c = ":" -> 58
    [] c = "a" -> 97
    [] c = "b" -> 98
    [] c = "e" -> 101
    [] c = "f" -> 102
    [] c = "i" -> 105
    [] c = "k" -> 107
    [] c = "l" -> 108
    [] c = "o" -> 111
    [] c = "p" -> 112
    [] c = "r" -> 114
    [] c = "w" -> 119
    [] c = "x" -> 120
    [] c = "|" -> 124

\* Python's str < str: lexicographic by code point, a proper prefix first.
RECURSIVE StrLess(_, _)
StrLess(s, t) ==
  IF t = <<>> THEN FALSE
  ELSE IF s = <<>> THEN TRUE
  ELSE IF s[1] # t[1] THEN Ord(s[1]) < Ord(t[1])
  ELSE StrLess(Tail(s), Tail(t))

\* str.split(sep): the parts between the separators, empty parts included.
RECURSIVE SplitFrom(_, _, _, _)
SplitFrom(s, sep, cur, acc) ==
  IF s = <<>> THEN Append(acc, cur)
  ELSE IF s[1] = sep THEN SplitFrom(Tail(s), sep, <<>>, Append(acc, cur))
  ELSE SplitFrom(Tail(s), sep, Append(cur, s[1]), acc)

Split(s, sep) == SplitFrom(s, sep, <<>>, <<>>)

\* sep.join(parts)
RECURSIVE Join(_, _)
Join(parts, sep) ==
  IF parts = <<>> THEN <<>>
  ELSE IF Len(parts) = 1 THEN parts[1]
  ELSE parts[1] \o <<sep>> \o Join(Tail(parts), sep)

\* str.startswith(".")
StartsWithDot(s) == s # <<>> /\ s[1] = "."

\* Sorted in descending order.
RECURSIVE Sorted_Descending(_)
Sorted_Descending(S) ==
  IF S = {} THEN <<>>
  ELSE LET m == CHOOSE x \in S : \A y \in S \ {x} : StrLess(y, x)
       IN <<m>> \o Sorted_Descending(S \ {m})

\* sorted(...) of a set of directory names
RECURSIVE Sorted(_)
Sorted(S) ==
  IF S = {} THEN <<>>
  ELSE LET m == CHOOSE x \in S : \A y \in S \ {x} : StrLess(x, y)
       IN <<m>> \o Sorted(S \ {m})

\* ------------------------------------------------------- reserved directories
\* pfx_path_lower, pfx_path_work, pfx_path_prefix
LowerDir == <<".", "l", "o", "w", "e", "r">>
WorkDir == <<".", "w", "o", "r", "k">>
PrefixDir == <<".", "p", "r", "e", "f", "i", "x">>

\* -------------------------------------------------------------------- Program
\* Program.from_name_version: the path is "<name>|<version>" under the home.
from_name_version(name, version) ==
  [name |-> name, version |-> version, path |-> name \o <<"|">> \o version]

\* "name, version = program_dir.name.split('|')": unpacking into two names
\* raises ValueError unless the split has exactly two parts.
Unpacks(d) == Len(Split(d, "|")) = 2

\* The Program built from a directory name that unpacks.
from_path(d) ==
  [name |-> Split(d, "|")[1], version |-> Split(d, "|")[2], path |-> d]

\* The directories Program.all_programs visits, in the order it visits them:
\* the sorted sub-directories of the home, those starting with "." skipped.
Visited(dirs) == SelectSeq(Sorted(dirs), LAMBDA d : ~StartsWithDot(d))

\* Program.all_programs consumed to its end (as remount does): the Programs it
\* yields; meaningful when every visited directory unpacks.
all_programs(dirs) ==
  [i \in 1..Len(Visited(dirs)) |-> from_path(Visited(dirs)[i])]

\* Whether consuming all_programs to its end raises ValueError.
ScanRaises(dirs) == \E i \in 1..Len(Visited(dirs)) : ~Unpacks(Visited(dirs)[i])

\* ------------------------------------------------------------------ PfxConfig
\* The empty dict.
NoOverrides == [n \in {} |-> <<>>]

\* PfxConfig({}, set())
EmptyConfig == [overrides |-> NoOverrides, excluded |-> {}]

\* dict.pop(key) / del dict[key], the key present
DictDel(d, k) == [n \in DOMAIN d \ {k} |-> d[n]]

\* dict[key] = value
DictSet(d, k, v) == [n \in DOMAIN d \cup {k} |-> IF n = k THEN v ELSE d[n]]

\* set(list)
ToSet(list) == {list[i] : i \in 1..Len(list)}

\* list(set): the elements once each, in an order the set's hashing decides.
ToLists(S) ==
  {l \in [1..Cardinality(S) -> S] : \A i, j \in 1..Cardinality(S) : l[i] = l[j] => i = j}

\* ------------------------------------------------------------------- remount
\* "program.name in lower": lower is a dict keyed by name, kept here as the
\* sequence of its values in insertion order.
InLower(lower, name) == \E i \in 1..Len(lower) : lower[i].name = name

\* Skipped with one of its tests left out.
Skipped_NoUpper(program, config, upper, lower) ==
  \/ InLower(lower, program.name)
  \/ program.name \in config.excluded
  \/ /\ program.name \in DOMAIN config.overrides
     /\ program.version # config.overrides[program.name]

Skipped_NoSeen(program, config, upper, lower) ==
  \/ upper # <<>> /\ upper[1].name = program.name
  \/ program.name \in config.excluded
  \/ /\ program.name \in DOMAIN config.overrides
     /\ program.version # config.overrides[program.name]

Skipped_NoExcluded(program, config, upper, lower) ==
  \/ upper # <<>> /\ upper[1].name = program.name
  \/ InLower(lower, program.name)
  \/ /\ program.name \in DOMAIN config.overrides
     /\ program.version # config.overrides[program.name]

Skipped_NoOverride(program, config, upper, lower) ==
  \/ upper # <<>> /\ upper[1].name = program.name
  \/ InLower(lower, program.name)
  \/ program.name \in config.excluded

\* The four "continue" tests of remount's loop for one program.
Skipped(program, config, upper, lower) ==
  \/ upper # <<>> /\ upper[1].name = program.name
  \/ InLower(lower, program.name)
  \/ program.name \in config.excluded
  \/ /\ program.name \in DOMAIN config.overrides
     /\ program.version # config.overrides[program.name]

\* remount's loop over Program.all_programs, from the lower dict built so far.
RECURSIVE ResolveFrom(_, _, _, _)
ResolveFrom(programs, config, upper, lower) ==
  IF programs = <<>> THEN lower
  ELSE ResolveFrom(Tail(programs), config, upper,
                   IF Skipped(programs[1], config, upper, lower)
                   THEN lower ELSE Append(lower, programs[1]))

\* lower.values() after the loop.
ResolveLower(dirs, config, upper) ==
  ResolveFrom(all_programs(dirs), config, upper, <<>>)

\* MountArgs without the dummy lower directory.
MountArgs_NoBase(lower, upper) ==
  [lowerdir |-> Join([i \in 1..Len(lower) |-> lower[i].path], ":"),
   upperdir |-> IF upper # <<>> THEN <<upper[1].path>> ELSE <<>>,
   workdir |-> IF upper # <<>> THEN <<WorkDir>> ELSE <<>>,
   target |-> PrefixDir]

\* The arguments of the fuse-overlayfs call: the "lowerdir=" value, the
\* "upperdir=" and "workdir=" values when an upper is given, the mount point.
MountArgs(lower, upper) ==
  [lowerdir |-> Join(<<LowerDir>> \o [i \in 1..Len(lower) |-> lower[i].path], ":"),
   upperdir |-> IF upper # <<>> THEN <<upper[1].path>> ELSE <<>>,
   workdir |-> IF upper # <<>> THEN <<WorkDir>> ELSE <<>>,
   target |-> PrefixDir]

\* ------------------------------------------------------------ command line
\* Program names and versions given on the command line.
Names == {<<"a">>, <<"b">>}
Versions == {<<"1">>, <<"2">>}

\* The invocations: the click commands with their arguments.
Commands ==
  {[op |-> o, name |-> <<>>, version |-> <<>>] : o \in {"mount", "prefix", "list"}}
    \cup {[op |-> o, name |-> n, version |-> v] :
             o \in {"install", "set"}, n \in Names, v \in Versions}
    \cup {[op |-> o, name |-> n, version |-> <<>>] :
             o \in {"uninstall", "unset"}, n \in Names}

\* The processes that may run an invocation; one at a time uses the first.
Procs == {1, 2}
OneAtATime == {1}

\* ---------------------------------------------------------------------- state
VARIABLES
  dirs,     \* names of the sub-directories of the pfx home
  cfgFile,  \* <<>> when .config.json is absent, else <<its JSON content>>
  mnt,      \* the mounts stacked on the prefix directory, the live one last
  budget,   \* invocations that may still be started
  pc,       \* per process: where its invocation stands
  cmd,      \* per process: <<the command it runs>> or <<>>
  config,   \* per process: <<the PfxConfig it holds>> or <<>>
  lower,    \* per process: remount's lower.values()
  trace,    \* per process: what its invocation has done so far, in order
  result,   \* per process: "none", "ok" or the exception that ended it
  pre,      \* per process: cfgFile and mnt when its invocation started
  call,     \* per process: <<the arguments of its fuse-overlayfs call>> or <<>>
  log       \* the starts, loads and saves of all invocations, in order

vars ==
  <<dirs, cfgFile, mnt, budget, pc, cmd, config, lower, trace, result, pre, call, log>>

shared == <<dirs, cfgFile, mnt>>

\* "upper" as the command passes it to remount: install passes the intended
\* Program, every other command none.
UpperOf(c) ==
  IF c.op = "install" THEN <<from_name_version(c.name, c.version)>> ELSE <<>>

\* The first statement after pfx_path_home() in each command.
FirstStep(c) ==
  CASE c.op \in {"mount", "install", "unset"} -> "load"
    [] c.op \in {"uninstall", "set"} -> "check"
    [] c.op = "prefix" -> "prefix"
    [] c.op = "list" -> "list"

\* The statement that follows "with pfx_config(pfx_home) as config:".
AfterLoad(c) ==
  CASE c.op = "mount" -> "resolve"
    [] c.op = "install" -> "mkdir"
    [] c.op \in {"uninstall", "set", "unset"} -> "mutate"

\* The log with one more entry: process p, running c, has done ev.
Logged(p, c, ev) == Append(log, [proc |-> p, ev |-> ev, cmd |-> c])

\* One process moves to label l, having done ev.
Goto(p, l, ev) ==
  /\ pc' = [pc EXCEPT ![p] = l]
  /\ trace' = [trace EXCEPT ![p] = Append(@, ev)]

\* The invocation ends with an uncaught exception: nothing of the command
\* runs after it, the exit of pfx_config's "with" block included.
Raise(p, exc, ev) ==
  /\ Goto(p, "done", ev)
  /\ result' = [result EXCEPT ![p] = exc]

\* --------------------------------------------------------------------- steps
\* A command is started from the shell.
Start(p, c) ==
  /\ pc[p] = "idle"
  /\ budget > 0
  /\ budget' = budget - 1
  /\ pc' = [pc EXCEPT ![p] = FirstStep(c)]
  /\ cmd' = [cmd EXCEPT ![p] = <<c>>]
  /\ trace' = [trace EXCEPT ![p] = <<>>]
  /\ result' = [result EXCEPT ![p] = "none"]
  /\ pre' = [pre EXCEPT ![p] = <<[cfgFile |-> cfgFile, mnt |-> mnt]>>]
  /\ log' = Logged(p, c, "start")
  /\ UNCHANGED <<shared, config, lower, call>>

\* Matches with the version left out of set's test.
Matches_NameOnly(c, d) == from_path(d).name = c.name

\* uninstall and set: "Check that the program exists".  The loop consumes
\* all_programs up to the first match, so a directory that does not unpack
\* raises only when it is visited before a match.
Matches(c, d) ==
  /\ from_path(d).name = c.name
  /\ c.op = "set" => from_path(d).version = c.version

CheckStops(c, visited) ==
  {i \in 1..Len(visited) : ~Unpacks(visited[i]) \/ Matches(c, visited[i])}

Check(p) ==
  /\ pc[p] = "check"
  /\ LET c == cmd[p][1]
         visited == Visited(dirs)
         stops == CheckStops(c, visited)
         first == CHOOSE i \in stops : \A j \in stops : i <= j
     IN IF stops = {} THEN Raise(p, "RuntimeError", "scan")
        ELSE IF ~Unpacks(visited[first]) THEN Raise(p, "ValueError", "scan")
        ELSE Goto(p, "load", "scan") /\ UNCHANGED result
  /\ UNCHANGED <<shared, budget, cmd, config, lower, pre, call, log>>

\* LoadConfig reading the exclusions under a key the file never has.
LoadConfig_WrongKey(file) ==
  IF file = <<>> THEN EmptyConfig
  ELSE [overrides |-> file[1].overrides, excluded |-> {}]

\* pfx_config, up to its yield: read .config.json, or start empty.
LoadConfig(file) ==
  IF file = <<>> THEN EmptyConfig
  ELSE [overrides |-> file[1].overrides, excluded |-> ToSet(file[1].excluded)]

Load(p) ==
  /\ pc[p] = "load"
  /\ config' = [config EXCEPT ![p] = <<LoadConfig(cfgFile)>>]
  /\ Goto(p, AfterLoad(cmd[p][1]), "load")
  /\ log' = Logged(p, cmd[p][1], "load")
  /\ UNCHANGED <<shared, budget, cmd, lower, result, pre, call>>

\* Mkdir with install also lifting the exclusion of the program it installs.
Mkdir_Reinstate(p) ==
  /\ pc[p] = "mkdir"
  /\ dirs' = dirs \cup {UpperOf(cmd[p][1])[1].path}
  /\ config' = [config EXCEPT ![p] =
       <<[overrides |-> config[p][1].overrides,
          excluded |-> config[p][1].excluded \ {cmd[p][1].name}]>>]
  /\ Goto(p, "resolve", "mkdir")
  /\ UNCHANGED <<cfgFile, mnt, budget, cmd, lower, result, pre, call, log>>

\* install: create the intended program's directory when it is missing.
Mkdir(p) ==
  /\ pc[p] = "mkdir"
  /\ dirs' = dirs \cup {UpperOf(cmd[p][1])[1].path}
  /\ Goto(p, "resolve", "mkdir")
  /\ UNCHANGED <<cfgFile, mnt, budget, cmd, config, lower, result, pre, call, log>>

\* UninstallConfig without "config.overrides.pop(program)".
UninstallConfig_KeepOverride(cfg, name) ==
  [overrides |-> cfg.overrides, excluded |-> cfg.excluded \cup {name}]

\* uninstall: drop the override, add the exclusion.
UninstallConfig(cfg, name) ==
  [overrides |-> IF name \in DOMAIN cfg.overrides
                 THEN DictDel(cfg.overrides, name) ELSE cfg.overrides,
   excluded |-> cfg.excluded \cup {name}]

\* SetConfig without "config.excluded.discard(program)".
SetConfig_KeepExcluded(cfg, name, version) ==
  [overrides |-> DictSet(cfg.overrides, name, version), excluded |-> cfg.excluded]

\* set: drop the exclusion, set the override.
SetConfig(cfg, name, version) ==
  [overrides |-> DictSet(cfg.overrides, name, version),
   excluded |-> cfg.excluded \ {name}]

\* unset: delete the override (the key is present).
UnsetConfig(cfg, name) ==
  [overrides |-> DictDel(cfg.overrides, name), excluded |-> cfg.excluded]

\* AfterMutate with no command calling remount.
AfterMutate_NoRemount(c) == "save"

\* The label after a command's changes to the config: uninstall goes
\* straight to the end of the "with" block, set and unset call remount.
AfterMutate(c) == IF c.op = "uninstall" THEN "save" ELSE "resolve"

\* Mutate with unset tolerating a missing key, as "pop(program, None)" would.
Mutate_UnsetTolerant(p) ==
  /\ pc[p] = "mutate"
  /\ LET c == cmd[p][1]
         cfg == config[p][1]
     IN /\ config' = [config EXCEPT ![p] =
             <<CASE c.op = "uninstall" -> UninstallConfig(cfg, c.name)
                 [] c.op = "set" -> SetConfig(cfg, c.name, c.version)
                 [] c.op = "unset" -> UnsetConfig(cfg, c.name)>>]
        /\ Goto(p, AfterMutate(c), "mutate")
        /\ UNCHANGED result
  /\ UNCHANGED <<shared, budget, cmd, lower, pre, call, log>>

Mutate(p) ==
  /\ pc[p] = "mutate"
  /\ LET c == cmd[p][1]
         cfg == config[p][1]
     IN IF c.op = "unset" /\ c.name \notin DOMAIN cfg.overrides
        THEN Raise(p, "KeyError", "mutate") /\ UNCHANGED config
        ELSE /\ config' = [config EXCEPT ![p] =
                  <<CASE c.op = "uninstall" -> UninstallConfig(cfg, c.name)
                      [] c.op = "set" -> SetConfig(cfg, c.name, c.version)
                      [] c.op = "unset" -> UnsetConfig(cfg, c.name)>>]
             /\ Goto(p, AfterMutate(c), "mutate")
             /\ UNCHANGED result
  /\ UNCHANGED <<shared, budget, cmd, lower, pre, call, log>>

\* remount, lines 122-139: scan the home and choose the lower programs, then
\* make sure the prefix directory exists.
Resolve(p) ==
  /\ pc[p] = "resolve"
  /\ IF ScanRaises(dirs)
     THEN Raise(p, "ValueError", "resolve") /\ UNCHANGED <<dirs, lower>>
     ELSE /\ lower' = [lower EXCEPT ![p] =
               ResolveLower(dirs, config[p][1], UpperOf(cmd[p][1]))]
          /\ dirs' = dirs \cup {PrefixDir}
          /\ Goto(p, "unmount", "resolve")
          /\ UNCHANGED result
  /\ UNCHANGED <<cfgFile, mnt, budget, cmd, config, pre, call, log>>

\* Unmount with check=True: a failed "fusermount -u" raises.
Unmount_Checked(p) ==
  /\ pc[p] = "unmount"
  /\ \/ /\ UNCHANGED mnt
        /\ Raise(p, "CalledProcessError", "unmount failed")
     \/ /\ mnt # <<>>
        /\ mnt' = SubSeq(mnt, 1, Len(mnt) - 1)
        /\ Goto(p, "mount", "unmount")
        /\ UNCHANGED result
  /\ UNCHANGED <<dirs, cfgFile, budget, cmd, config, lower, pre, call, log>>

\* remount, line 140: "fusermount -u" with check=False.  With nothing mounted
\* it fails; with a mount in use it fails too (busy) and the mount stays;
\* otherwise the live mount is removed.  The exit status is not looked at.
Unmount(p) ==
  /\ pc[p] = "unmount"
  /\ \/ /\ mnt = <<>>
        /\ UNCHANGED mnt
        /\ Goto(p, "mount", "unmount failed")
     \/ /\ mnt # <<>>
        /\ UNCHANGED mnt
        /\ Goto(p, "mount", "unmount failed")
     \/ /\ mnt # <<>>
        /\ mnt' = SubSeq(mnt, 1, Len(mnt) - 1)
        /\ Goto(p, "mount", "unmount")
  /\ UNCHANGED <<dirs, cfgFile, budget, cmd, config, lower, result, pre, call, log>>

\* Mount with a retry: a failed fuse-overlayfs call goes back to the unmount.
Mount_Retry(p) ==
  /\ pc[p] = "mount"
  /\ LET upper == UpperOf(cmd[p][1])
     IN /\ dirs' = dirs \cup {LowerDir} \cup (IF upper # <<>> THEN {WorkDir} ELSE {})
        /\ call' = [call EXCEPT ![p] = <<MountArgs(lower[p], upper)>>]
        /\ \/ /\ mnt' = Append(mnt, MountArgs(lower[p], upper))
              /\ Goto(p, "save", "mount")
           \/ /\ UNCHANGED mnt
              /\ Goto(p, "unmount", "mount failed")
  /\ UNCHANGED <<cfgFile, budget, cmd, config, lower, result, pre, log>>

\* remount, lines 142-161: build the command (creating the dummy lower
\* directory, and the work directory when there is an upper) and run
\* fuse-overlayfs with check=True: a failure raises CalledProcessError.
Mount(p) ==
  /\ pc[p] = "mount"
  /\ LET upper == UpperOf(cmd[p][1])
     IN /\ dirs' = dirs \cup {LowerDir} \cup (IF upper # <<>> THEN {WorkDir} ELSE {})
        /\ call' = [call EXCEPT ![p] = <<MountArgs(lower[p], upper)>>]
        /\ \/ /\ mnt' = Append(mnt, MountArgs(lower[p], upper))
              /\ Goto(p, "save", "mount")
              /\ UNCHANGED result
           \/ /\ UNCHANGED mnt
              /\ Raise(p, "CalledProcessError", "mount failed")
  /\ UNCHANGED <<cfgFile, budget, cmd, config, lower, pre, log>>

\* Save keeping the exclusions the file already holds.
Save_Merged(p) ==
  /\ pc[p] = "save"
  /\ \E list \in ToLists(config[p][1].excluded
                         \cup (IF cfgFile = <<>> THEN {} ELSE ToSet(cfgFile[1].excluded))) :
       cfgFile' = <<[overrides |-> config[p][1].overrides, excluded |-> list]>>
  /\ Goto(p, "done", "save")
  /\ log' = Logged(p, cmd[p][1], "save")
  /\ result' = [result EXCEPT ![p] = "ok"]
  /\ UNCHANGED <<dirs, mnt, budget, cmd, config, lower, pre, call>>

\* pfx_config, after its yield: write .config.json.
SaveConfig(cfg, list) == [overrides |-> cfg.overrides, excluded |-> list]

Save(p) ==
  /\ pc[p] = "save"
  /\ \E list \in ToLists(config[p][1].excluded) :
       cfgFile' = <<SaveConfig(config[p][1], list)>>
  /\ Goto(p, "done", "save")
  /\ log' = Logged(p, cmd[p][1], "save")
  /\ result' = [result EXCEPT ![p] = "ok"]
  /\ UNCHANGED <<dirs, mnt, budget, cmd, config, lower, pre, call>>

\* prefix: print(pfx_path_prefix(...)), which creates the directory.
Prefix(p) ==
  /\ pc[p] = "prefix"
  /\ dirs' = dirs \cup {PrefixDir}
  /\ Goto(p, "done", "print")
  /\ result' = [result EXCEPT ![p] = "ok"]
  /\ UNCHANGED <<cfgFile, mnt, budget, cmd, config, lower, pre, call, log>>

\* list: the command's body is its docstring alone.
List(p) ==
  /\ pc[p] = "list"
  /\ pc' = [pc EXCEPT ![p] = "done"]
  /\ result' = [result EXCEPT ![p] = "ok"]
  /\ UNCHANGED <<shared, budget, cmd, config, lower, trace, pre, call, log>>

\* The process exits; its memory is gone.
Exit(p) ==
  /\ pc[p] = "done"
  /\ pc' = [pc EXCEPT ![p] = "idle"]
  /\ cmd' = [cmd EXCEPT ![p] = <<>>]
  /\ config' = [config EXCEPT ![p] = <<>>]
  /\ lower' = [lower EXCEPT ![p] = <<>>]
  /\ trace' = [trace EXCEPT ![p] = <<>>]
  /\ result' = [result EXCEPT ![p] = "none"]
  /\ pre' = [pre EXCEPT ![p] = <<>>]
  /\ call' = [call EXCEPT ![p] = <<>>]
  /\ UNCHANGED <<shared, budget, log>>

\* ------------------------------------------------------------- initial states
\* Directories a user may have put under the home: program directories,
\* and names that are not "<name>|<version>".
HomeDirs ==
  {<<"a", "|", "1">>, <<"a", "|", "2">>, <<"b", "|", "1">>,
   <<"a">>, <<"a", "|", "1", "|", "1">>, <<"|", "1">>, <<"a", "|">>}

\* The contents .config.json may have.
ConfigFiles ==
  {[overrides |-> o, excluded |-> l] :
     o \in UNION {[D -> Versions] : D \in SUBSET Names},
     l \in UNION {ToLists(E) : E \in SUBSET Names}}

\* What an earlier "pfx mount" of a then empty home left mounted.
EarlierMount == MountArgs(<<>>, <<>>)

Idle ==
  /\ pc = [p \in Procs |-> "idle"]
  /\ cmd = [p \in Procs |-> <<>>]
  /\ config = [p \in Procs |-> <<>>]
  /\ lower = [p \in Procs |-> <<>>]
  /\ trace = [p \in Procs |-> <<>>]
  /\ result = [p \in Procs |-> "none"]
  /\ pre = [p \in Procs |-> <<>>]
  /\ call = [p \in Procs |-> <<>>]
  /\ log = <<>>

\* Any home a single invocation may find.
Init ==
  /\ \E S \in SUBSET HomeDirs, mounted \in BOOLEAN :
       /\ Cardinality(S) <= MaxDirs
       /\ dirs = S \cup (IF mounted THEN {PrefixDir, LowerDir} ELSE {})
       /\ mnt = IF mounted THEN <<EarlierMount>> ELSE <<>>
  /\ cfgFile \in {<<>>} \cup {<<f>> : f \in ConfigFiles}
  /\ budget = 1
  /\ Idle

\* A fresh home, and a run of several invocations.
InitFresh ==
  /\ dirs = {}
  /\ mnt = <<>>
  /\ cfgFile = <<>>
  /\ budget = MaxCmds
  /\ Idle

Next ==
  \E p \in OneAtATime :
    \/ \E c \in Commands : Start(p, c)
    \/ Check(p)
    \/ Load(p)
    \/ Mkdir(p)
    \/ Mutate(p)
    \/ Resolve(p)
    \/ Unmount(p)
    \/ Mount(p)
    \/ Save(p)
    \/ Prefix(p)
    \/ List(p)
    \/ Exit(p)

Spec == Init /\ [][Next]_vars

\* Two invocations against the same home, with no lock between them: the
\* steps of the two processes interleave freely.
InitRace ==
  /\ dirs = {<<"a", "|", "1">>, <<"b", "|", "1">>}
  /\ mnt = <<>>
  /\ cfgFile \in {<<>>,
                  <<[overrides |-> [n \in {<<"a">>} |-> <<"1">>], excluded |-> <<>>]>>,
                  <<[overrides |-> NoOverrides, excluded |-> <<(<<"b">>)>>]>>}
  /\ budget = 2
  /\ Idle

NextRace ==
  \E p \in Procs :
    \/ \E c \in Commands : Start(p, c)
    \/ Check(p)
    \/ Load(p)
    \/ Mkdir(p)
    \/ Mutate(p)
    \/ Resolve(p)
    \/ Unmount(p)
    \/ Mount(p)
    \/ Save(p)
    \/ Prefix(p)
    \/ List(p)
    \/ Exit(p)

SpecRace == InitRace /\ [][NextRace]_vars

SpecRun == InitFresh /\ [][Next]_vars

\* The shell line "pfx uninstall n; pfx install n v; pfx mount", for any n and
\* v, run in any home: each command starts when the one before it has
\* exited, whatever its exit status.
Script == <<"uninstall", "install", "mount">>

Started == SelectSeq(log, LAMBDA e : e.ev = "start")

ScriptStep(c) ==
  /\ Len(Started) < Len(Script)
  /\ c.op = Script[Len(Started) + 1]
  /\ c.op = "install" => c.name = Started[1].cmd.name

InitScript ==
  /\ \E S \in SUBSET HomeDirs, mounted \in BOOLEAN :
       /\ Cardinality(S) <= MaxDirs
       /\ dirs = S \cup (IF mounted THEN {PrefixDir, LowerDir} ELSE {})
       /\ mnt = IF mounted THEN <<EarlierMount>> ELSE <<>>
  /\ cfgFile \in {<<>>} \cup {<<f>> : f \in ConfigFiles}
  /\ budget = Len(Script)
  /\ Idle

NextScript ==
  \E p \in OneAtATime :
    \/ \E c \in Commands : ScriptStep(c) /\ Start(p, c)
    \/ Check(p)
    \/ Load(p)
    \/ Mkdir(p)
    \/ Mutate(p)
    \/ Resolve(p)
    \/ Unmount(p)
    \/ Mount(p)
    \/ Save(p)
    \/ Exit(p)

SpecScript == InitScript /\ [][NextScript]_vars

\* ===================================================================== claims
\* The invocation of process p has done ev.
Did(p, ev) == \E i \in 1..Len(trace[p]) : trace[p][i] = ev

\* Process p has computed remount's lower sequence and not yet finished.
Resolved(p) == pc[p] \in {"unmount", "mount", "save"} /\ Did(p, "resolve")

\* The command and the config of process p, once it holds them.
TheCmd(p) == cmd[p][1]
TheConfig(p) == config[p][1]

\* The catalog has the entry (n, v).
HasEntry(n, v) == (n \o <<"|">> \o v) \in dirs

\* The versions the lower sequence of p holds for name n.
LowerVersions(p, n) ==
  {lower[p][i].version : i \in {j \in 1..Len(lower[p]) : lower[p][j].name = n}}

A == <<"a">>
B == <<"b">>
V1 == <<"1">>
V2 == <<"2">>

\* C1: the lower sequence remount computes never holds two entries with the
\* same program name, whatever the catalog, the config and the upper.
C1_AtMostOnePerName ==
  \A p \in Procs : Resolved(p) =>
    \A i, j \in 1..Len(lower[p]) : lower[p][i].name = lower[p][j].name => i = j

\* C1 witness: two versions of a and one of b in the catalog, no override,
\* and a lower sequence of two entries.
C1_Witness ==
  /\ Resolved(1)
  /\ HasEntry(A, V1) /\ HasEntry(A, V2) /\ HasEntry(B, V1)
  /\ TheConfig(1) = EmptyConfig
  /\ Len(lower[1]) = 2

\* C2 as stated: whenever overrides pins n to v and the catalog has (n, v),
\* the lower sequence holds exactly that entry for n.
C2_Original ==
  \A p \in Procs : Resolved(p) =>
    \A n \in DOMAIN TheConfig(p).overrides :
      HasEntry(n, TheConfig(p).overrides[n]) =>
        LowerVersions(p, n) = {TheConfig(p).overrides[n]}

\* C2 amended: when overrides pins n to v, the catalog has (n, v), n is not
\* excluded and n is not the name of the upper, the lower sequence holds the
\* entry (n, v), with the path of that catalog entry, and no other version
\* of n.
C2_OverrideSelection ==
  \A p \in Procs : Resolved(p) =>
    \A n \in DOMAIN TheConfig(p).overrides :
      LET v == TheConfig(p).overrides[n]
      IN (/\ HasEntry(n, v)
          /\ n \notin TheConfig(p).excluded
          /\ ~(TheCmd(p).op = "install" /\ TheCmd(p).name = n))
         => /\ LowerVersions(p, n) = {v}
            /\ \E i \in 1..Len(lower[p]) :
                 lower[p][i] = [name |-> n, version |-> v, path |-> n \o <<"|">> \o v]

\* C2 witness: a pinned to 2 while a|1, which sorts first, is in the catalog.
C2_Witness ==
  /\ Resolved(1)
  /\ HasEntry(A, V1) /\ HasEntry(A, V2)
  /\ A \in DOMAIN TheConfig(1).overrides
  /\ TheConfig(1).overrides[A] = V2
  /\ A \notin TheConfig(1).excluded
  /\ LowerVersions(1, A) = {V2}

\* C3: a name in config.excluded has no entry in the lower sequence, also
\* when it is a key of config.overrides and the pinned version exists.
C3_ExclusionDominates ==
  \A p \in Procs : Resolved(p) =>
    \A n \in TheConfig(p).excluded : LowerVersions(p, n) = {}

\* C3 witness: a is excluded and pinned to a version the catalog has, and
\* the command is not an install of a.
C3_Witness ==
  /\ Resolved(1)
  /\ A \in TheConfig(1).excluded
  /\ A \in DOMAIN TheConfig(1).overrides
  /\ HasEntry(A, TheConfig(1).overrides[A])
  /\ TheCmd(1).op = "mount"
  /\ lower[1] # <<>>

\* C4: with an upper program named n, the lower sequence has no entry named
\* n, and the upper directory of the mount call is the upper's path.
C4_UpperExclusive ==
  \A p \in Procs :
    (cmd[p] # <<>> /\ TheCmd(p).op = "install") =>
      /\ Resolved(p) => LowerVersions(p, TheCmd(p).name) = {}
      /\ pc[p] = "save" =>
           mnt[Len(mnt)].upperdir = <<TheCmd(p).name \o <<"|">> \o TheCmd(p).version>>

\* C4 witness: install a 2 has mounted while a|1 is in the catalog and a is
\* pinned to 1 and not excluded.
C4_Witness ==
  /\ pc[1] = "save"
  /\ TheCmd(1) = [op |-> "install", name |-> A, version |-> V2]
  /\ HasEntry(A, V1)
  /\ A \in DOMAIN TheConfig(1).overrides /\ TheConfig(1).overrides[A] = V1
  /\ A \notin TheConfig(1).excluded
  /\ lower[1] # <<>>

\* The invocation of process p has ended: with success, with an exception.
Ended(p) == pc[p] = "done"
Succeeded(p) == pc[p] = "done" /\ result[p] = "ok"
Failed(p) == pc[p] = "done" /\ result[p] # "ok"

\* The lower directories of a mount, read back from its "lowerdir=" value.
LowerDirsOf(m) == Split(m.lowerdir, ":")

\* The program paths among the lower directories of the live mount.
LiveLower == IF mnt = <<>> THEN <<>> ELSE Tail(LowerDirsOf(mnt[Len(mnt)]))

\* The live mount is made of the layer set process p resolved.
LiveIsNew(p) ==
  /\ mnt # <<>>
  /\ LowerDirsOf(mnt[Len(mnt)]) = <<LowerDir>> \o [i \in 1..Len(lower[p]) |-> lower[p][i].path]
  /\ mnt[Len(mnt)].upperdir =
       (IF TheCmd(p).op = "install"
        THEN <<TheCmd(p).name \o <<"|">> \o TheCmd(p).version>> ELSE <<>>)

\* remount of process p has reached its unmount step.
TriedUnmount(p) == Did(p, "unmount") \/ Did(p, "unmount failed")

\* C5 as stated, for the remount calls that reach the unmount step: a call
\* that completed leaves the prefix mounted with the new layer set and
\* nothing else, a call that failed leaves it unmounted.
C5_Original ==
  \A p \in Procs : TriedUnmount(p) =>
    /\ Did(p, "mount") => LiveIsNew(p) /\ Len(mnt) = 1
    /\ Did(p, "mount failed") => mnt = <<>>

\* The commands that change the configuration or the mount.
Mutating == {"install", "uninstall", "set", "unset"}

\* The positions of the saves in the trace of process p.
Saves(p) == {i \in 1..Len(trace[p]) : trace[p][i] = "save"}

\* C6 as stated: every ended invocation of a mutating command has saved
\* exactly once, as its last step.
C6_Original ==
  \A p \in Procs : (Ended(p) /\ TheCmd(p).op \in Mutating) =>
    Saves(p) = {Len(trace[p])}

\* C6 amended: an invocation of a mutating command that ends without an
\* error has saved exactly once, as its last step, after loading, after its
\* changes to the config and after its remount when it makes one, and what
\* it saved is the config it holds; one that ends with an error has not
\* saved; none saves more than once.
C6_SaveOnce ==
  \A p \in Procs : (cmd[p] # <<>> /\ TheCmd(p).op \in Mutating) =>
    /\ Cardinality(Saves(p)) <= 1
    /\ Failed(p) => Saves(p) = {}
    /\ Succeeded(p) =>
         /\ Saves(p) = {Len(trace[p])}
         /\ Did(p, "load")
         /\ TheCmd(p).op # "install" => Did(p, "mutate")
         /\ TheCmd(p).op # "uninstall" => Did(p, "mount")
         /\ cfgFile # <<>>
         /\ cfgFile[1].overrides = TheConfig(p).overrides
         /\ ToSet(cfgFile[1].excluded) = TheConfig(p).excluded

\* C6 witness: a set that succeeded and left .config.json as it was.
C6_Witness ==
  /\ Succeeded(1)
  /\ TheCmd(1).op = "set"
  /\ cfgFile = pre[1][1].cfgFile
  /\ Saves(1) # {}

\* The names of the programs among the lower directories of the live mount.
LiveNames == {Split(LiveLower[i], "|")[1] : i \in 1..Len(LiveLower)}

\* C7 as stated: a successful uninstall n has remounted the prefix, and the
\* live mount's lower layers hold no entry named n.
C7_Original ==
  \A p \in Procs : (Succeeded(p) /\ TheCmd(p).op = "uninstall") =>
    /\ Did(p, "mount")
    /\ TheCmd(p).name \notin LiveNames

\* The catalog has no entry for what the set or uninstall of c names.
Absent(c) ==
  IF c.op = "set" THEN ~HasEntry(c.name, c.version)
  ELSE \A d \in dirs : (~StartsWithDot(d) /\ Unpacks(d)) => from_path(d).name # c.name

\* C8: a set naming a (name, version) absent from the catalog, or an
\* uninstall naming a program with no entry, ends with an error, with
\* .config.json and the mounts as they were, and without an unmount, a
\* mount, a change of the config or a save.
C8_NotFoundNoMutation ==
  \A p \in Procs :
    (Ended(p) /\ TheCmd(p).op \in {"set", "uninstall"} /\ Absent(TheCmd(p))) =>
      /\ result[p] \in {"RuntimeError", "ValueError"}
      /\ cfgFile = pre[p][1].cfgFile
      /\ mnt = pre[p][1].mnt
      /\ ~TriedUnmount(p) /\ ~Did(p, "mount") /\ ~Did(p, "mount failed")
      /\ ~Did(p, "load") /\ ~Did(p, "mutate") /\ ~Did(p, "save")

\* C8 witness: set a 2 has ended with RuntimeError while a|1 is in the
\* catalog, a config file exists and the prefix is mounted.
C8_Witness ==
  /\ Ended(1)
  /\ TheCmd(1) = [op |-> "set", name |-> A, version |-> V2]
  /\ HasEntry(A, V1) /\ ~HasEntry(A, V2)
  /\ result[1] = "RuntimeError"
  /\ cfgFile # <<>> /\ mnt # <<>>

\* C9: after a successful set n v, .config.json has overrides[n] = v and n
\* not in excluded, and the live mount's lower layers hold n|v and no other
\* version of n.
C9_SetPins ==
  \A p \in Procs : (Succeeded(p) /\ TheCmd(p).op = "set") =>
    LET n == TheCmd(p).name
        v == TheCmd(p).version
    IN /\ cfgFile # <<>>
       /\ n \in DOMAIN cfgFile[1].overrides
       /\ cfgFile[1].overrides[n] = v
       /\ n \notin ToSet(cfgFile[1].excluded)
       /\ \E i \in 1..Len(LiveLower) : LiveLower[i] = n \o <<"|">> \o v
       /\ \A i \in 1..Len(LiveLower) :
            Split(LiveLower[i], "|")[1] = n => LiveLower[i] = n \o <<"|">> \o v

\* C9 witness: set a 2 succeeded where a was excluded and pinned to 1 and
\* both versions are in the catalog.
C9_Witness ==
  /\ Succeeded(1)
  /\ TheCmd(1) = [op |-> "set", name |-> A, version |-> V2]
  /\ HasEntry(A, V1) /\ HasEntry(A, V2)
  /\ pre[1][1].cfgFile # <<>>
  /\ A \in ToSet(pre[1][1].cfgFile[1].excluded)
  /\ A \in DOMAIN pre[1][1].cfgFile[1].overrides
  /\ pre[1][1].cfgFile[1].overrides[A] = V1

\* C10: when nothing is mounted, the failure of remount's unmount step is
\* ignored: the mount step is executed next, no exception comes from the
\* unmount, and a mount that succeeds leaves the prefix mounted with the new
\* layer set.
C10_IdempotentUnmount ==
  \A p \in Procs : (pre[p] # <<>> /\ pre[p][1].mnt = <<>> /\ TriedUnmount(p)) =>
    /\ Did(p, "unmount failed")
    /\ pc[p] \in {"mount", "save", "done"}
    /\ pc[p] # "mount" => Did(p, "mount") \/ Did(p, "mount failed")
    /\ Did(p, "mount") => LiveIsNew(p) /\ Len(mnt) = 1 /\ result[p] \in {"none", "ok"}

\* C10 witness: nothing was mounted, the unmount failed and the mount of a
\* non-empty layer set succeeded.
C10_Witness ==
  /\ pre[1] # <<>> /\ pre[1][1].mnt = <<>>
  /\ Did(1, "unmount failed") /\ Did(1, "mount")
  /\ lower[1] # <<>>
  /\ Len(mnt) = 1

\* How many times the invocation of process p has done one of the events evs.
Count(p, evs) == Cardinality({i \in 1..Len(trace[p]) : trace[p][i] \in evs})

\* C11: one remount call runs the mount mechanism at most once, and exactly
\* once when it completes; a failed mount call ends the invocation with the
\* exception of that call, with no further unmount or mount.
C11_NoRetry ==
  \A p \in Procs :
    /\ Count(p, {"mount", "mount failed"}) <= 1
    /\ Count(p, {"unmount", "unmount failed"}) <= 1
    /\ (pc[p] = "save" /\ Did(p, "resolve")) => Count(p, {"mount"}) = 1
    /\ Did(p, "mount failed") =>
         /\ pc[p] = "done"
         /\ result[p] = "CalledProcessError"
         /\ trace[p][Len(trace[p])] = "mount failed"

\* C11 witness: the mount call of a set failed after the old mount had been
\* removed.
C11_Witness ==
  /\ Failed(1)
  /\ TheCmd(1).op = "set"
  /\ Did(1, "unmount") /\ Did(1, "mount failed")
  /\ mnt = <<>>

\* The record a config file holds, as a mapping and a set; the empty record
\* when the file is absent.
Meaning(file) ==
  IF file = <<>> THEN [overrides |-> NoOverrides, excluded |-> {}]
  ELSE [overrides |-> file[1].overrides,
        excluded |-> {file[1].excluded[i] : i \in 1..Len(file[1].excluded)}]

\* C12: a command that loads the config and saves it without changing it
\* (mount, install) leaves a file that means what the file meant before, an
\* absent file counting as the empty record; and every file a command saves
\* means the config the command holds, so that loading it again gives that
\* config back.
C12_RoundTrip ==
  \A p \in Procs :
    /\ (config[p] # <<>> /\ TheCmd(p).op \in {"mount", "install"}) =>
         TheConfig(p) = Meaning(pre[p][1].cfgFile)
    /\ (Succeeded(p) /\ TheCmd(p).op \in {"mount", "install"}) =>
         cfgFile # <<>> /\ Meaning(cfgFile) = Meaning(pre[p][1].cfgFile)
    /\ (Succeeded(p) /\ config[p] # <<>>) =>
         cfgFile # <<>> /\ Meaning(cfgFile) = TheConfig(p)

\* C12 witness: a mount rewrote a file that excluded a and b and pinned a,
\* with the two exclusions in the other order.
C12_Witness ==
  /\ Succeeded(1)
  /\ TheCmd(1).op = "mount"
  /\ pre[1][1].cfgFile # <<>>
  /\ pre[1][1].cfgFile[1].excluded = <<A, B>>
  /\ cfgFile[1].excluded = <<B, A>>
  /\ DOMAIN cfgFile[1].overrides = {A}

\* The position in the log of the latest ev of process p (0 when none).
LastPos(p, ev) ==
  LET at == {i \in 1..Len(log) : log[i].proc = p /\ log[i].ev = ev}
  IN IF at = {} THEN 0 ELSE CHOOSE i \in at : \A j \in at : j <= i

\* The invocations of p and q have both ended with a save, each loaded
\* before either saved, and q saved last.
Raced(p, q) ==
  /\ p # q
  /\ Succeeded(p) /\ Succeeded(q)
  /\ Did(p, "save") /\ Did(q, "save")
  /\ LastPos(p, "load") < LastPos(p, "save")
  /\ LastPos(q, "load") < LastPos(p, "save")
  /\ LastPos(p, "save") < LastPos(q, "save")

\* What a config says about name n: whether it is excluded, and its pin.
Status(c, n) ==
  <<n \in c.excluded,
    IF n \in DOMAIN c.overrides THEN <<c.overrides[n]>> ELSE <<>>>>

\* C13: when two invocations both load before either saves, the file left
\* is the record of the last save: it means the config the last saver holds,
\* and about every name but the one the last saver's command names it says
\* what the file said before both, whatever the other invocation changed.
C13_LastSaveWins ==
  \A p, q \in Procs : Raced(p, q) =>
    /\ Meaning(cfgFile) = TheConfig(q)
    /\ \A n \in Names \ {TheCmd(q).name} :
         Status(Meaning(cfgFile), n) = Status(Meaning(pre[q][1].cfgFile), n)

\* C13 witness: uninstall a and uninstall b both loaded the absent file,
\* uninstall a saved first, and the file left excludes b alone.
C13_Witness ==
  /\ Raced(1, 2)
  /\ TheCmd(1) = [op |-> "uninstall", name |-> A, version |-> <<>>]
  /\ TheCmd(2) = [op |-> "uninstall", name |-> B, version |-> <<>>]
  /\ pre[1][1].cfgFile = <<>> /\ pre[2][1].cfgFile = <<>>
  /\ cfgFile[1].excluded = <<B>>

\* A directory name of the form "<name>|<version>", both parts non-empty.
WellFormed(d) ==
  LET parts == Split(d, "|")
  IN Len(parts) = 2 /\ parts[1] # <<>> /\ parts[2] # <<>>

\* The catalog directories that are not of that form.
Malformed == {d \in dirs : ~StartsWithDot(d) /\ ~WellFormed(d)}

\* C14 as stated: a scan of a catalog holding a name that is not two
\* non-empty parts around one "|" raises instead of yielding a Program, and
\* no name starting with "." is yielded.
C14_Original ==
  \A p \in Procs : Did(p, "resolve") =>
    /\ Malformed # {} => result[p] = "ValueError"
    /\ \A i \in 1..Len(lower[p]) : ~StartsWithDot(lower[p][i].path)

\* No name is both a key of the file's overrides and in its excluded list.
Disjoint(file) ==
  file = <<>> \/ DOMAIN file[1].overrides \cap ToSet(file[1].excluded) = {}

\* C15: no step of a command run on its own takes a config file in which
\* the overrides' keys and the exclusions are disjoint (the absent file among
\* them) to one in which they are not; so no sequence of commands does.
C15_StaysDisjoint == [][Disjoint(cfgFile) => Disjoint(cfgFile')]_vars

\* C15 witness: uninstall a succeeded on a disjoint file that pinned a, and
\* the file now excludes a and pins it no longer.
C15_Witness ==
  /\ Succeeded(1)
  /\ TheCmd(1).op = "uninstall" /\ TheCmd(1).name = A
  /\ pre[1][1].cfgFile # <<>>
  /\ Disjoint(pre[1][1].cfgFile)
  /\ A \in DOMAIN pre[1][1].cfgFile[1].overrides
  /\ A \in ToSet(cfgFile[1].excluded)
  /\ A \notin DOMAIN cfgFile[1].overrides

\* The entries of a lower sequence for the names other than n.
Others(seq, n) == SelectSeq(seq, LAMBDA e : e.name # n)

\* The config of process p without the override of n.
Unpinned(p, n) ==
  [overrides |-> [m \in DOMAIN TheConfig(p).overrides \ {n} |-> TheConfig(p).overrides[m]],
   excluded |-> TheConfig(p).excluded]

\* C16: when overrides pins n to a version the catalog does not have, the
\* scan of a catalog whose names all unpack raises nothing, the lower
\* sequence has no entry named n, and its entries for the other names are
\* those chosen without that override.
C16_AbsentPinOmitted ==
  \A p \in Procs : (Did(p, "resolve") /\ config[p] # <<>>) =>
    \A n \in DOMAIN TheConfig(p).overrides :
      ~HasEntry(n, TheConfig(p).overrides[n]) =>
        /\ ~ScanRaises(dirs) =>
             result[p] \notin {"ValueError", "KeyError", "RuntimeError"}
        /\ Resolved(p) =>
             /\ LowerVersions(p, n) = {}
             /\ Others(lower[p], n) =
                  Others(ResolveLower(dirs, Unpinned(p, n), UpperOf(TheCmd(p))), n)

\* C16 witness: a is pinned to 2, the catalog has a|1 and b|1 but no a|2,
\* a is not excluded, and mount resolved b|1 alone.
C16_Witness ==
  /\ Resolved(1)
  /\ TheCmd(1).op = "mount"
  /\ A \in DOMAIN TheConfig(1).overrides /\ TheConfig(1).overrides[A] = V2
  /\ A \notin TheConfig(1).excluded
  /\ HasEntry(A, V1) /\ ~HasEntry(A, V2) /\ HasEntry(B, V1)
  /\ Len(lower[1]) = 1 /\ lower[1][1].name = B

\* The names of the catalog's programs (every directory unpacks).
CatalogNames == {Split(d, "|")[1] : d \in {e \in dirs : ~StartsWithDot(e)}}

\* The catalog directories of the versions of name n.
DirsOf(n) == {d \in dirs : ~StartsWithDot(d) /\ Split(d, "|")[1] = n}

\* C17: the lower sequence is made of catalog directories in ascending
\* lexicographic order of directory name (the scan order, kept), and for a
\* name that is not excluded, not pinned and not the upper's, the entry
\* chosen is the first of that name's directories in that order.
C17_ScanOrder ==
  \A p \in Procs : Resolved(p) =>
    /\ \A i \in 1..Len(lower[p]) : lower[p][i].path \in dirs
    /\ \A i, j \in 1..Len(lower[p]) :
         i < j => StrLess(lower[p][i].path, lower[p][j].path)
    /\ \A n \in CatalogNames :
         (/\ n \notin TheConfig(p).excluded
          /\ n \notin DOMAIN TheConfig(p).overrides
          /\ ~(TheCmd(p).op = "install" /\ TheCmd(p).name = n))
         => \E i \in 1..Len(lower[p]) :
              /\ lower[p][i].path \in DirsOf(n)
              /\ \A d \in DirsOf(n) : ~StrLess(d, lower[p][i].path)

\* C17 witness: with a|1, a|2 and b|1 in the catalog and an empty config,
\* mount resolved a|1 then b|1.
C17_Witness ==
  /\ Resolved(1)
  /\ TheCmd(1).op = "mount"
  /\ TheConfig(1) = EmptyConfig
  /\ HasEntry(A, V1) /\ HasEntry(A, V2) /\ HasEntry(B, V1)
  /\ lower[1] = <<[name |-> A, version |-> V1, path |-> <<"a", "|", "1">>],
                  [name |-> B, version |-> V1, path |-> <<"b", "|", "1">>]>>

\* C18: in every fuse-overlayfs call, failed ones included, the lower
\* directory list starts with the dummy base directory and goes on with the
\* paths of the chosen programs in the order of the lower sequence and
\* nothing else; the upper directory and the work directory are both given
\* when the command has an upper and both left out otherwise.
C18_MountArguments ==
  \A p \in Procs : call[p] # <<>> =>
    LET m == call[p][1]
        lowerdirs == Split(m.lowerdir, ":")
    IN /\ lowerdirs # <<>>
       /\ lowerdirs[1] = <<".", "l", "o", "w", "e", "r">>
       /\ Tail(lowerdirs) = [i \in 1..Len(lower[p]) |-> lower[p][i].path]
       /\ m.target = <<".", "p", "r", "e", "f", "i", "x">>
       /\ TheCmd(p).op = "install" =>
            /\ m.upperdir = <<TheCmd(p).name \o <<"|">> \o TheCmd(p).version>>
            /\ m.workdir = <<<<".", "w", "o", "r", "k">>>>
       /\ TheCmd(p).op # "install" => m.upperdir = <<>> /\ m.workdir = <<>>

\* C18 witness: the mount call of an install with two chosen lower programs
\* failed.
C18_Witness ==
  /\ call[1] # <<>>
  /\ Did(1, "mount failed")
  /\ TheCmd(1).op = "install"
  /\ Len(lower[1]) = 2

\* C18 witness, no program chosen: the list is the dummy base alone.
C18_WitnessEmpty ==
  /\ call[1] # <<>>
  /\ lower[1] = <<>>
  /\ call[1][1].lowerdir = <<".", "l", "o", "w", "e", "r">>

\* The commands of the given kind that have saved the config so far.
Saved(op) == SelectSeq(log, LAMBDA e : e.ev = "save" /\ e.cmd.op = op)

\* C19: the config install saves means what the config it loaded meant; so
\* in "uninstall n; install n v; mount", once uninstall has saved, n stays
\* excluded through the install and the mount, and the mount that the final
\* command makes has no lower directory of n.
C19_InstallKeepsConfig ==
  /\ \A p \in Procs :
       (Succeeded(p) /\ TheCmd(p).op = "install")
         => Meaning(cfgFile) = Meaning(pre[p][1].cfgFile)
  /\ Saved("uninstall") # <<>> =>
       LET n == Saved("uninstall")[1].cmd.name
       IN /\ n \in Meaning(cfgFile).excluded
          /\ \A p \in Procs :
               (Succeeded(p) /\ TheCmd(p).op = "mount") => n \notin LiveNames

\* C19 witness: the three commands have all succeeded, the install with a
\* version other than the one the home had, and another program is mounted.
C19_Witness ==
  /\ Succeeded(1)
  /\ TheCmd(1).op = "mount"
  /\ Saved("uninstall") # <<>>
  /\ Saved("install") # <<>>
  /\ Saved("install")[1].cmd.name = <<"a">>
  /\ {<<"a", "|", "1">>, <<"a", "|", "2">>} \subseteq dirs
  /\ LiveNames = {<<"b">>}

\* C20: "unset n" with no override for n in the config file ends with
\* KeyError, having made no unmount, mount or save, and leaves the config
\* file and the mounts as they were; with an override for n, an unset that
\* succeeds saves the overrides without n, the others as they were, and the
\* same excluded set.
C20_UnsetMissingKey ==
  \A p \in Procs :
    (Ended(p) /\ TheCmd(p).op = "unset") =>
      LET n == TheCmd(p).name
          before == Meaning(pre[p][1].cfgFile)
          after == Meaning(cfgFile)
      IN /\ n \notin DOMAIN before.overrides =>
              /\ result[p] = "KeyError"
              /\ cfgFile = pre[p][1].cfgFile
              /\ mnt = pre[p][1].mnt
              /\ call[p] = <<>>
              /\ Count(p, {"unmount", "unmount failed", "mount", "mount failed", "save"}) = 0
         /\ (n \in DOMAIN before.overrides /\ Succeeded(p)) =>
              /\ DOMAIN after.overrides = DOMAIN before.overrides \ {n}
              /\ \A k \in DOMAIN after.overrides :
                   after.overrides[k] = before.overrides[k]
              /\ after.excluded = before.excluded

\* C20 witness: an unset of a name with no override has failed while the
\* config holds an override of the other name and something is mounted.
C20_Witness ==
  /\ Ended(1)
  /\ TheCmd(1).op = "unset"
  /\ TheCmd(1).name = <<"a">>
  /\ result[1] = "KeyError"
  /\ DOMAIN Meaning(cfgFile).overrides = {<<"b">>}
  /\ mnt # <<>>

\* C20 witness, key present: the unset of one of two overrides succeeded.
C20_WitnessPresent ==
  /\ Succeeded(1)
  /\ TheCmd(1).op = "unset"
  /\ DOMAIN Meaning(pre[1][1].cfgFile).overrides = {<<"a">>, <<"b">>}
  /\ DOMAIN Meaning(cfgFile).overrides = {<<"b">>}
  /\ Meaning(cfgFile).excluded # {}

====
